---- MODULE Spec2Model ----
(***************************************************************************)
(* SOW editor: optimistic application of assistant suggestions to a Slate  *)
(* document (withHistory), the inline accept / reject controls of the chat *)
(* panel, and the pending-suggestion part of the zustand store.            *)
(*                                                                         *)
(* The document is one paragraph holding one text node, so a point is an   *)
(* offset and every operation has the same path.  Text is a sequence of    *)
(* one-character strings.  A selection is <<>> (editor.selection = null)   *)
(* or <<anchor, focus>>.  A nullable object is <<>> (null) or <<obj>>.     *)
(***************************************************************************)
EXTENDS Integers, Sequences, FiniteSets, TLC

VARIABLES
    doc,                \* editor.children, flattened to its text
    selection,          \* editor.selection
    undos,              \* editor.history.undos
    redos,              \* editor.history.redos
    editorRef,          \* EditorProvider state: the editor is registered
    chatMessages,       \* store.chatMessages
    isClaudeTyping,     \* store.isClaudeTyping
    inflight,           \* handleSendMessage calls suspended at the await
    isConfigured,       \* BedrockService.isConfigured (AWS credentials present)
    now,                \* Date.now()
    status,             \* InlineSuggestionActions' useState, one per message
    pendingSuggestion,  \* store.pendingSuggestion
    suggestionHistory,  \* store.suggestionHistory
    preApply,           \* history variable: the document just before each message's apply
    clean,              \* history variable: nothing but accepts touched the editor since the apply
    effects,            \* history variable: what the reject handler of each message did, in order
    acceptCalls,        \* history variable: how often the accept handler of each message ran
    typed,              \* history variable: the user's key presses so far
    since,              \* history variable: what touched the editor since each message's apply
    applyLog,           \* history variable: the editor just after each message's apply
    moved,              \* history variable: the user set the selection while the request
                        \* was out, and nothing has happened since its reply
    blocked,            \* history variable: a send attempt was dropped while the request is out
    response,           \* handleSendMessage's response: the last reply that arrived
    request,            \* handleSendMessage's userMessage: the text of the last request
    inlineControls,     \* store.inlineControls.visible
    sections,           \* store.sections
    changeLog           \* store.changeLog

vars == <<doc, selection, undos, redos, editorRef, chatMessages, isClaudeTyping,
          inflight, isConfigured, now, status, pendingSuggestion, suggestionHistory,
          preApply, clean, effects, acceptCalls, typed, since, applyLog,
          moved, blocked, response, request, inlineControls, sections, changeLog>>

editorVars == <<doc, selection, undos, redos>>
chatVars == <<chatMessages, isClaudeTyping, inflight, now>>
storeVars == <<pendingSuggestion, suggestionHistory>>
ghostVars == <<preApply, clean, effects, acceptCalls, typed, since, applyLog>>
flightVars == <<blocked, response, request>>
sideVars == <<inlineControls, sections, changeLog>>

\* ------------------------------------------------------------------ bounds

MaxDoc == 5          \* longest document explored
MaxTyped == 1        \* key presses of the user
MaxSends == 1        \* chat messages the user sends
MaxDup == 1          \* repeated deliveries of one click (SpecDup)
MaxLedger == 2       \* longest suggestionHistory explored (SpecStore)
MaxChatSends == 2    \* chat messages the user sends (SpecChat)

\* ------------------------------------------------------------------ text

InitialText == <<"s">>
UserChars == {"u"}
Contents == {<<"X">>}
\* parsedResponse.action: the three actions of the prompt, and "undefined" for a
\* payload without action, which applySuggestion's switch does not know
NoAction == "undefined"
SuggestionActions == {"replace", "insert", "append", NoAction}

Min(a, b) == IF a <= b THEN a ELSE b
Max(a, b) == IF a >= b THEN a ELSE b
Last(s) == s[Len(s)]
Front(s) == SubSeq(s, 1, Len(s) - 1)

InsertAt(d, offset, text) ==
    SubSeq(d, 1, offset) \o text \o SubSeq(d, offset + 1, Len(d))

RemoveAt(d, offset, n) ==
    SubSeq(d, 1, offset) \o SubSeq(d, offset + n + 1, Len(d))

\* ------------------------------------------------ the Slate editor object
\* What the calls the application makes on editorRef do: slate's core
\* (createEditor) and slate-history's withHistory, which SOWEditor composes.

\* The editor as the handlers see it at the start of an event: editor.operations
\* was flushed (emptied) by the microtask that followed the previous event.
Ed == [doc |-> doc, selection |-> selection, undos |-> undos, redos |-> redos,
       operations |-> 0]

InsertTextOp(offset, text) == [type |-> "insert_text", offset |-> offset, text |-> text]
RemoveTextOp(offset, text) == [type |-> "remove_text", offset |-> offset, text |-> text]

\* Operation.inverse
Inverse(op) ==
    IF op.type = "insert_text" THEN RemoveTextOp(op.offset, op.text)
    ELSE InsertTextOp(op.offset, op.text)

\* Point.transform (affinity forward)
PointTransform(p, op) ==
    IF op.type = "insert_text"
    THEN IF op.offset <= p THEN p + Len(op.text) ELSE p
    ELSE IF op.offset <= p THEN p - Min(p - op.offset, Len(op.text)) ELSE p

\* The core editor.apply: the operation changes the text, moves the selection's
\* points and is queued in editor.operations until the flush.
CoreApply(ed, op) ==
    [ed EXCEPT
        !.doc = IF op.type = "insert_text"
                THEN InsertAt(@, op.offset, op.text)
                ELSE RemoveAt(@, op.offset, Len(op.text)),
        !.selection = IF @ = <<>> THEN <<>>
                      ELSE <<PointTransform(@[1], op), PointTransform(@[2], op)>>,
        !.operations = @ + 1]

\* slate-history shouldMerge: typing on, or deleting back from, the last operation
shouldMerge(op, prev) ==
    \/ /\ op.type = "insert_text" /\ prev.type = "insert_text"
       /\ op.offset = prev.offset + Len(prev.text)
    \/ /\ op.type = "remove_text" /\ prev.type = "remove_text"
       /\ op.offset + Len(op.text) = prev.offset

\* withHistory's editor.apply for a text operation (saving): the operation joins
\* the last batch when operations are already queued in this tick or when
\* shouldMerge says so, else it opens a batch; the redo stack is dropped.
HistoryApply(ed, op) ==
    LET merge == IF ed.undos = <<>> THEN FALSE
                 ELSE IF ed.operations # 0 THEN TRUE
                 ELSE shouldMerge(op, Last(Last(ed.undos).operations))
        saved == IF merge
                 THEN [ed.undos EXCEPT ![Len(ed.undos)].operations = Append(@, op)]
                 ELSE Append(ed.undos, [operations |-> <<op>>,
                                        selectionBefore |-> ed.selection])
    IN CoreApply([ed EXCEPT !.undos = saved, !.redos = <<>>], op)

\* Transforms.select / Transforms.setSelection: a set_selection operation, which
\* the history does not save, is applied when the target differs.
Select(ed, target) ==
    IF ed.selection = target THEN ed
    ELSE [ed EXCEPT !.selection = target, !.operations = @ + 1]

\* Transforms.setSelection does nothing without a selection
SetSelection(ed, target) ==
    IF ed.selection = <<>> THEN ed ELSE Select(ed, target)

\* Editor.end(editor, [])
EndPoint(ed) == <<Len(ed.doc), Len(ed.doc)>>

\* editor.insertText(text) putting the text at the end of the document, wherever
\* the selection is
EditorInsertTextAtEnd(ed, text) ==
    IF ed.selection = <<>> \/ text = <<>> THEN ed
    ELSE HistoryApply(ed, InsertTextOp(Len(ed.doc), text))

\* editor.insertText(text): nothing without a selection; an expanded selection
\* is deleted first; the text goes in at the (collapsed) selection.
EditorInsertText(ed, text) ==
    IF ed.selection = <<>> THEN ed
    ELSE LET lo == Min(ed.selection[1], ed.selection[2])
             hi == Max(ed.selection[1], ed.selection[2])
             e1 == IF lo = hi THEN ed
                   ELSE SetSelection(
                            HistoryApply(ed, RemoveTextOp(lo, SubSeq(ed.doc, lo + 1, hi))),
                            <<lo, lo>>)
         IN IF text = <<>> THEN e1 ELSE HistoryApply(e1, InsertTextOp(lo, text))

RECURSIVE ApplyAll(_, _)
ApplyAll(ed, ops) ==
    IF ops = <<>> THEN ed ELSE ApplyAll(CoreApply(ed, Head(ops)), Tail(ops))

Reverse(s) == [i \in 1..Len(s) |-> s[Len(s) + 1 - i]]

\* editor.undo() moving the batch to the redo stack without reverting it
EditorUndoDropOnly(ed) ==
    IF ed.undos = <<>> THEN ed
    ELSE [ed EXCEPT !.redos = Append(@, Last(ed.undos)), !.undos = Front(@)]

\* editor.undo(): the last batch's operations are inverted in reverse order
\* without saving, the selection of before the batch is put back, the batch
\* moves to the redo stack.
EditorUndo(ed) ==
    IF ed.undos = <<>> THEN ed
    ELSE LET batch == Last(ed.undos)
             inverseOps == Reverse([i \in 1..Len(batch.operations) |->
                                        Inverse(batch.operations[i])])
             e1 == ApplyAll(ed, inverseOps)
             e2 == IF batch.selectionBefore # <<>>
                   THEN SetSelection(e1, batch.selectionBefore) ELSE e1
         IN [e2 EXCEPT !.redos = Append(@, batch), !.undos = Front(@)]

\* editor.redo()
EditorRedo(ed) ==
    IF ed.redos = <<>> THEN ed
    ELSE LET batch == Last(ed.redos)
             e1 == IF batch.selectionBefore # <<>>
                   THEN SetSelection(ed, batch.selectionBefore) ELSE ed
             e2 == ApplyAll(e1, batch.operations)
         IN [e2 EXCEPT !.redos = Front(@), !.undos = Append(@, batch)]

\* ------------------------------------------------ EditorContext (useEditor)

insertText(ed, ref, text) ==
    IF ref THEN EditorInsertText(ed, text) ELSE ed

\* replaceSelection putting the text after the selected text, which it keeps
replaceSelectionKeeping(ed, ref, newText) ==
    IF ref /\ ed.selection # <<>>
    THEN EditorInsertText(
             Select(ed, <<Max(ed.selection[1], ed.selection[2]),
                          Max(ed.selection[1], ed.selection[2])>>), newText)
    ELSE ed

replaceSelection(ed, ref, newText) ==
    IF ref THEN EditorInsertText(ed, newText) ELSE ed

\* insertAtEnd leaving the selection at the end of what it inserted
insertAtEndNoRestore(ed, ref, text) ==
    IF ref
    THEN EditorInsertText(Select(ed, EndPoint(ed)), <<"\n">> \o text)
    ELSE ed

insertAtEnd(ed, ref, text) ==
    IF ref
    THEN LET sel == ed.selection
             e1 == Select(ed, EndPoint(ed))
             e2 == EditorInsertText(e1, <<"\n">> \o text)
         IN IF sel # <<>> THEN Select(e2, sel) ELSE e2
    ELSE ed

\* s is <<>> (no suggestion) or <<suggestion>>
applySuggestion(ed, ref, s) ==
    IF ~ref \/ s = <<>> THEN ed
    ELSE LET suggestion == s[1]
         IN CASE suggestion.type = "replace" ->
                     IF suggestion.range # <<>>
                     THEN EditorInsertText(Select(ed, suggestion.range), suggestion.content)
                     ELSE replaceSelection(ed, ref, suggestion.content)
              [] suggestion.type = "insert" ->
                     IF suggestion.position # <<>>
                     THEN EditorInsertText(Select(ed, suggestion.position), suggestion.content)
                     ELSE insertText(ed, ref, suggestion.content)
              [] suggestion.type = "append" ->
                     insertAtEnd(ed, ref, suggestion.content)
              [] OTHER ->
                     insertText(ed, ref, suggestion.content)

\* TRUE when undoLastChange calls editor.undo()
UndoAvailable(ed, ref) == ref /\ ed.undos # <<>>

\* undoLastChange with the undo issued twice
undoLastChangeTwice(ed, ref) ==
    IF UndoAvailable(ed, ref) THEN EditorUndo(EditorUndo(ed)) ELSE ed

undoLastChange(ed, ref) ==
    IF UndoAvailable(ed, ref) THEN EditorUndo(ed) ELSE ed

\* ------------------------------------------------ the store (useSOWStore)

\* the record pushed by acceptSuggestion / rejectSuggestion
HistoryEntry(suggestion, st) ==
    [id |-> suggestion.id, type |-> suggestion.type, content |-> suggestion.content,
     applied |-> suggestion.applied, status |-> st]

\* acceptSuggestion() assigning the history instead of pushing onto it
acceptedHistoryAssigned(pending, history) ==
    IF pending # <<>> THEN <<HistoryEntry(pending[1], "accepted")>>
    ELSE history

\* acceptSuggestion(): the new suggestionHistory
acceptedHistory(pending, history) ==
    IF pending # <<>> THEN Append(history, HistoryEntry(pending[1], "accepted"))
    ELSE history

\* rejectSuggestion(): the new suggestionHistory
rejectedHistory(pending, history) ==
    IF pending # <<>> THEN Append(history, HistoryEntry(pending[1], "rejected"))
    ELSE history

\* setClaudeTyping(isTyping) never clearing the flag
setClaudeTypingStuck(isTyping) == TRUE

\* setClaudeTyping(isTyping): the new isClaudeTyping
setClaudeTyping(isTyping) == isTyping

\* addChatMessage putting the message in front (unshift) instead of at the end
addChatMessageFirst(messages, message, t) ==
    <<[id |-> t, role |-> message.role, content |-> message.content,
       hasSuggestion |-> message.hasSuggestion,
       suggestion |-> message.suggestion]>> \o messages

\* addChatMessage(message): the new chatMessages
addChatMessage(messages, message, t) ==
    Append(messages, [id |-> t, role |-> message.role, content |-> message.content,
                      hasSuggestion |-> message.hasSuggestion,
                      suggestion |-> message.suggestion])

\* ------------------------------------------------ the assistant's replies

\* The JSON texts of the model: "{", a character for the type, a character for
\* the action, the content, "}".
TypeCode == [suggestion |-> "S", note |-> "N"]
ActionCode == [replace |-> "r", insert |-> "i", append |-> "a", undefined |-> "-"]

\* the JSON text of an object with the fields type, action and content
JSONStringify(obj) ==
    <<"{", TypeCode[obj.type], ActionCode[obj.action]>> \o obj.content \o <<"}">>

\* JSON.parse(response) in its try/catch: <<>> is null (the text is not JSON)
JSONParse(text) ==
    IF /\ Len(text) >= 4
       /\ text[1] = "{"
       /\ text[Len(text)] = "}"
       /\ \E t \in DOMAIN TypeCode : TypeCode[t] = text[2]
       /\ \E a \in DOMAIN ActionCode : ActionCode[a] = text[3]
    THEN <<[type |-> CHOOSE t \in DOMAIN TypeCode : TypeCode[t] = text[2],
            action |-> CHOOSE a \in DOMAIN ActionCode : ActionCode[a] = text[3],
            content |-> SubSeq(text, 4, Len(text) - 1)]>>
    ELSE <<>>

\* A reply of BedrockService.sendMessage: it throws, or resolves to a text;
\* payload is what JSON.parse makes of the text.
Reply(text) == [throws |-> FALSE, text |-> text, payload |-> JSONParse(text)]

PlainReply == Reply(<<"T">>)
FailedReply == [throws |-> TRUE, text |-> <<>>, payload |-> <<>>]
OtherJsonReply ==
    Reply(JSONStringify([type |-> "note", action |-> "insert", content |-> <<"X">>]))
SuggestionRepliesOf(contents) ==
    {Reply(JSONStringify([type |-> "suggestion", action |-> a, content |-> c])) :
        a \in SuggestionActions, c \in contents}
SuggestionReplies == SuggestionRepliesOf(Contents)

\* the placeholder answering with the user's text and nothing around it
PlaceholderTextEcho(userMessage) == userMessage

\* the text sendMessage resolves to without credentials:
\* I understand you said: "<userMessage>". This is a placeholder response. ...
PlaceholderText(userMessage) == <<"I">> \o userMessage \o <<".">>

PlaceholderReply(userMessage) == Reply(PlaceholderText(userMessage))

\* sendMessage: the placeholder text without credentials, else whatever Bedrock
\* does, the suggestions it makes carrying one of the given contents
RepliesOf(contents) ==
    IF ~isConfigured THEN {PlaceholderReply(request)}
    ELSE {PlainReply, FailedReply, OtherJsonReply} \cup SuggestionRepliesOf(contents)

Replies == RepliesOf(Contents)

\* the classification taking any JSON object for a suggestion
isSuggestionAnyType(parsed) == parsed # <<>>

\* parsedResponse && parsedResponse.type === 'suggestion'
isSuggestion(parsed) == parsed # <<>> /\ parsed[1].type = "suggestion"

ErrorText == <<"E">>
UserText == <<"Q">>

\* the catch branch logging the failure as a message of the user
catchMessageAsUser ==
    [role |-> "user", content |-> ErrorText, hasSuggestion |-> FALSE, suggestion |-> <<>>]

\* the message of the catch branch
catchMessage ==
    [role |-> "assistant", content |-> ErrorText, hasSuggestion |-> FALSE,
     suggestion |-> <<>>]

\* ------------------------------------------------ initial state

Init ==
    /\ doc = InitialText
    /\ selection = <<>>
    /\ undos = <<>>
    /\ redos = <<>>
    /\ editorRef = TRUE
    /\ chatMessages = <<>>
    /\ isClaudeTyping = FALSE
    /\ inflight = 0
    /\ isConfigured \in BOOLEAN
    /\ now = 1
    /\ status = <<>>
    /\ pendingSuggestion = <<>>
    /\ suggestionHistory = <<>>
    /\ preApply = <<>>
    /\ clean = <<>>
    /\ effects = <<>>
    /\ acceptCalls = <<>>
    /\ typed = 0
    /\ since = <<>>
    /\ applyLog = <<>>
    /\ moved = FALSE
    /\ blocked = FALSE
    /\ response = <<>>
    /\ request = <<>>
    /\ inlineControls = FALSE
    /\ sections = <<>>
    /\ changeLog = <<>>

SetEditor(ed) ==
    /\ doc' = ed.doc
    /\ selection' = ed.selection
    /\ undos' = ed.undos
    /\ redos' = ed.redos

Messages == 1..Len(chatMessages)

Sends == Cardinality({m \in Messages : chatMessages[m].role = "user"})

NoLog == [doc |-> <<>>, batches |-> 0]

\* a message joins the chat: its controls (if any) mount with status pending
Mounted(applied) ==
    /\ status' = Append(status, IF applied THEN "pending" ELSE "none")
    /\ preApply' = Append(preApply, IF applied THEN doc ELSE <<>>)
    /\ clean' = Append(IF applied THEN [m \in Messages |-> FALSE] ELSE clean, applied)
    /\ effects' = Append(effects, <<>>)
    /\ acceptCalls' = Append(acceptCalls, 0)
    /\ since' = Append(IF applied THEN [m \in Messages |-> "other"] ELSE since, "none")
    /\ applyLog' = Append(applyLog,
           IF applied
           THEN [doc |-> doc', batches |-> Len(undos')]
           ELSE NoLog)
    /\ UNCHANGED typed

\* the user did something to the document: no suggestion is "untouched" any more
Touched == clean' = [m \in Messages |-> FALSE]

\* the same, telling one key press ("typed") from anything else ("other")
Since(kind) ==
    since' = [m \in Messages |-> IF since[m] = "none" THEN kind ELSE "other"]

\* moved is kept while the request is out and dropped by the first event after
\* its reply
Settled == moved' = (inflight > 0 /\ moved)

\* ------------------------------------------------ the user at the editor

\* Editable: a key press inserts a character at the selection
UserType ==
    \E c \in UserChars :
        /\ selection # <<>>
        /\ typed < MaxTyped
        /\ Len(EditorInsertText(Ed, <<c>>).doc) <= MaxDoc
        /\ SetEditor(EditorInsertText(Ed, <<c>>))
        /\ typed' = typed + 1
        /\ Touched
        /\ Since("typed")
        /\ Settled
        /\ UNCHANGED <<editorRef, chatVars, isConfigured, sideVars, status, storeVars,
                       preApply, effects, acceptCalls, applyLog, flightVars>>

\* where the user puts the selection: the cursor at the end of the text, or the
\* first character selected
UserSelections ==
    {<<Len(doc), Len(doc)>>} \cup (IF Len(doc) > 0 THEN {<<0, 1>>} ELSE {})

\* Editable: a click or a drag sets the selection
UserSelect ==
    \E target \in UserSelections :
        /\ selection # target
        /\ SetEditor(Select(Ed, target))
        /\ moved' = (inflight > 0)
        /\ UNCHANGED <<editorRef, chatVars, isConfigured, sideVars, status, storeVars, ghostVars,
                       flightVars>>

\* SOWEditor.handleKeyDown Ctrl+Z and Toolbar.handleUndo
UserUndo ==
    /\ undos # <<>>
    /\ SetEditor(EditorUndo(Ed))
    /\ Touched
    /\ Since("other")
    /\ Settled
    /\ UNCHANGED <<editorRef, chatVars, isConfigured, sideVars, status, storeVars,
                   preApply, effects, acceptCalls, typed, applyLog, flightVars>>

\* SOWEditor.handleKeyDown Ctrl+Shift+Z, Ctrl+Y and Toolbar.handleRedo
UserRedo ==
    /\ redos # <<>>
    /\ SetEditor(EditorRedo(Ed))
    /\ Touched
    /\ Since("other")
    /\ Settled
    /\ UNCHANGED <<editorRef, chatVars, isConfigured, sideVars, status, storeVars,
                   preApply, effects, acceptCalls, typed, applyLog, flightVars>>

\* ------------------------------------------------ ChatPanel.handleSendMessage

\* the guard with the test of isClaudeTyping left out
CanSendAlways == TRUE

\* the guard of handleSendMessage (the input is not blank)
CanSend == ~isClaudeTyping

\* up to the await: the user's message is logged, the composing flag is set,
\* the request is dispatched with the text of the input
SendText(n, userMessage) ==
    /\ CanSend
    /\ Sends < n
    /\ chatMessages' = addChatMessage(chatMessages,
           [role |-> "user", content |-> userMessage, hasSuggestion |-> FALSE,
            suggestion |-> <<>>], now)
    /\ isClaudeTyping' = setClaudeTyping(TRUE)
    /\ inflight' = inflight + 1
    /\ request' = userMessage
    /\ Mounted(FALSE)
    /\ Settled
    /\ UNCHANGED <<editorVars, editorRef, isConfigured, sideVars, now, storeVars,
                   blocked, response>>

SendUpTo(n) == SendText(n, UserText)

Send == SendUpTo(MaxSends)

\* a click on Send or Enter while the guard is false: the handler returns at once
SendBlocked ==
    /\ ~CanSend
    /\ blocked' = TRUE
    /\ Settled
    /\ UNCHANGED <<editorVars, editorRef, chatVars, isConfigured, sideVars, status, storeVars,
                   ghostVars, response, request>>

\* the suggestion object built from a parsed reply
NewSuggestion(parsed, t) ==
    [id |-> t, type |-> parsed.action, content |-> parsed.content, applied |-> TRUE,
     range |-> <<>>, position |-> <<>>]

\* from the await on: the reply is classified; a suggestion is applied at once
\* and shown with its controls; anything else is shown as text; finally the
\* composing flag is cleared.
RespondFrom(replies) ==
    \E reply \in replies :
        LET t == now + 1
            parsed == JSONParse(reply.text)
            suggestion == NewSuggestion(parsed[1], t)
            applied == applySuggestion(Ed, editorRef, <<suggestion>>)
        IN /\ inflight > 0
           /\ now' = t
           /\ inflight' = inflight - 1
           /\ isClaudeTyping' = setClaudeTyping(FALSE)
           /\ UNCHANGED <<moved, request>>
           /\ blocked' = FALSE
           /\ response' = <<reply>>
           /\ IF reply.throws
              THEN /\ chatMessages' = addChatMessage(chatMessages, catchMessage, t)
                   /\ Mounted(FALSE)
                   /\ UNCHANGED editorVars
              ELSE IF isSuggestion(parsed)
              THEN /\ Len(applied.doc) <= MaxDoc
                   /\ SetEditor(applied)
                   /\ chatMessages' = addChatMessage(chatMessages,
                          [role |-> "assistant", content |-> parsed[1].content,
                           hasSuggestion |-> TRUE, suggestion |-> <<suggestion>>], t)
                   /\ Mounted(TRUE)
              ELSE /\ chatMessages' = addChatMessage(chatMessages,
                          [role |-> "assistant", content |-> reply.text,
                           hasSuggestion |-> FALSE, suggestion |-> <<>>], t)
                   /\ Mounted(FALSE)
                   /\ UNCHANGED editorVars
           /\ UNCHANGED <<editorRef, isConfigured, sideVars, storeVars>>

Respond == RespondFrom(Replies)

\* ------------------------------------------------ InlineSuggestionActions

\* the buttons rendered whatever the status
ControlsShownAnyStatus(m) ==
    /\ chatMessages[m].hasSuggestion
    /\ chatMessages[m].suggestion # <<>>

\* the Accept / Reject buttons of message m are rendered
ControlsShown(m) ==
    /\ chatMessages[m].hasSuggestion
    /\ chatMessages[m].suggestion # <<>>
    /\ status[m] = "pending"

\* handleAccept: setStatus('accepted'); acceptSuggestion()
handleAccept(m) ==
    /\ status' = [status EXCEPT ![m] = "accepted"]
    /\ suggestionHistory' = acceptedHistory(pendingSuggestion, suggestionHistory)
    /\ pendingSuggestion' = <<>>
    /\ acceptCalls' = [acceptCalls EXCEPT ![m] = @ + 1]
    /\ Settled
    /\ UNCHANGED <<editorVars, editorRef, chatVars, isConfigured, sideVars, preApply, clean, effects,
                   typed, since, applyLog, flightVars>>

\* what the reject handler does, in order: the undo (when the history has an
\* entry), the ledger record (when the store holds a pending suggestion), and,
\* when the handler has returned, the commit of setStatus('rejected')
rejectEffects(ed, ref, pending) ==
    (IF UndoAvailable(ed, ref) THEN <<"undo">> ELSE <<>>)
    \o (IF pending # <<>> THEN <<"ledger">> ELSE <<>>)
    \o <<"status">>

\* handleReject: setStatus('rejected'); undoLastChange(); rejectSuggestion().
\* Its undo touches the editor under every other suggestion.
handleReject(m) ==
    /\ status' = [status EXCEPT ![m] = "rejected"]
    /\ SetEditor(undoLastChange(Ed, editorRef))
    /\ suggestionHistory' = rejectedHistory(pendingSuggestion, suggestionHistory)
    /\ pendingSuggestion' = <<>>
    /\ effects' = [effects EXCEPT ![m] = @ \o rejectEffects(Ed, editorRef, pendingSuggestion)]
    /\ clean' = [k \in Messages |-> k = m /\ clean[k]]
    /\ since' = [k \in Messages |-> IF k = m THEN since[k] ELSE "other"]
    /\ Settled
    /\ UNCHANGED <<editorRef, chatVars, isConfigured, sideVars, preApply, acceptCalls, typed,
                   applyLog, flightVars>>

Accept == \E m \in Messages : ControlsShown(m) /\ handleAccept(m)

Reject == \E m \in Messages : ControlsShown(m) /\ handleReject(m)

\* ------------------------------------------------ the application as wired

Next ==
    \/ UserType
    \/ UserSelect
    \/ UserUndo
    \/ UserRedo
    \/ Send
    \/ Respond
    \/ Accept
    \/ Reject

Spec == Init /\ [][Next]_vars

\* ------------------------------------------------ the editor never registered
\* EditorProvider before setEditorRef(editor) took effect: editorRef is null,
\* and every function of the context returns at its first test.

InitUnavailable ==
    /\ doc = InitialText
    /\ selection = <<>>
    /\ undos = <<>>
    /\ redos = <<>>
    /\ editorRef = FALSE
    /\ chatMessages = <<>>
    /\ isClaudeTyping = FALSE
    /\ inflight = 0
    /\ isConfigured \in BOOLEAN
    /\ now = 1
    /\ status = <<>>
    /\ pendingSuggestion = <<>>
    /\ suggestionHistory = <<>>
    /\ preApply = <<>>
    /\ clean = <<>>
    /\ effects = <<>>
    /\ acceptCalls = <<>>
    /\ typed = 0
    /\ since = <<>>
    /\ applyLog = <<>>
    /\ moved = FALSE
    /\ blocked = FALSE
    /\ response = <<>>
    /\ request = <<>>
    /\ inlineControls = FALSE
    /\ sections = <<>>
    /\ changeLog = <<>>

SpecUnavailable == InitUnavailable /\ [][Next]_vars

\* ------------------------------------------------ the chat on its own
\* The user sends several messages and moves the selection, but does not type.

SendChat == SendUpTo(MaxChatSends)

NextChat ==
    \/ UserSelect
    \/ SendChat
    \/ SendBlocked
    \/ Respond
    \/ Accept
    \/ Reject

SpecChat == Init /\ [][NextChat]_vars

\* ------------------------------------------------ a click delivered again
\* The handlers of InlineSuggestionActions do not look at status: only the
\* re-render that follows setStatus takes the buttons away.  These actions are
\* the handler of an already resolved suggestion running once more.

Resolutions(m) ==
    acceptCalls[m] + Cardinality({i \in 1..Len(effects[m]) : effects[m][i] = "status"})

DuplicateAccept ==
    \E m \in Messages :
        /\ status[m] = "accepted"
        /\ Resolutions(m) <= MaxDup
        /\ handleAccept(m)

DuplicateReject ==
    \E m \in Messages :
        /\ status[m] = "rejected"
        /\ Resolutions(m) <= MaxDup
        /\ handleReject(m)

NextDup == Next \/ DuplicateAccept \/ DuplicateReject

SpecDup == Init /\ [][NextDup]_vars

\* ------------------------------------------------ the pending suggestion
\* setPendingSuggestion and clearPendingSuggestion as any component may call
\* them, and SuggestionPanel, which renders while a suggestion is pending.

\* a suggestion that was not applied when it was made pending
ReadySuggestion ==
    [id |-> 0, type |-> "append", content |-> <<"X">>, applied |-> FALSE,
     range |-> <<>>, position |-> <<>>]

PanelSuggestions ==
    {ReadySuggestion} \cup
    {chatMessages[m].suggestion[1] : m \in {k \in Messages : chatMessages[k].hasSuggestion}}

setPendingSuggestion ==
    \E suggestion \in PanelSuggestions :
        /\ Len(suggestionHistory) < MaxLedger
        /\ pendingSuggestion # <<suggestion>>
        /\ pendingSuggestion' = <<suggestion>>
        /\ Settled
        /\ UNCHANGED <<editorVars, editorRef, chatVars, isConfigured, sideVars, status,
                       suggestionHistory, ghostVars, flightVars>>

clearPendingSuggestion ==
    /\ pendingSuggestion # <<>>
    /\ pendingSuggestion' = <<>>
    /\ Settled
    /\ UNCHANGED <<editorVars, editorRef, chatVars, isConfigured, sideVars, status,
                   suggestionHistory, ghostVars, flightVars>>

\* SuggestionPanel.handleAccept: applySuggestion(pendingSuggestion); acceptSuggestion()
PanelAccept ==
    /\ pendingSuggestion # <<>>
    /\ Len(applySuggestion(Ed, editorRef, pendingSuggestion).doc) <= MaxDoc
    /\ SetEditor(applySuggestion(Ed, editorRef, pendingSuggestion))
    /\ suggestionHistory' = acceptedHistory(pendingSuggestion, suggestionHistory)
    /\ pendingSuggestion' = <<>>
    /\ Touched
    /\ Since("other")
    /\ Settled
    /\ UNCHANGED <<editorRef, chatVars, isConfigured, sideVars, status,
                   preApply, effects, acceptCalls, typed, applyLog, flightVars>>

\* SuggestionPanel.handleReject: undoLastChange() if the suggestion was
\* applied; rejectSuggestion()
PanelReject ==
    /\ pendingSuggestion # <<>>
    /\ SetEditor(IF pendingSuggestion[1].applied
                 THEN undoLastChange(Ed, editorRef) ELSE Ed)
    /\ suggestionHistory' = rejectedHistory(pendingSuggestion, suggestionHistory)
    /\ pendingSuggestion' = <<>>
    /\ Touched
    /\ Since("other")
    /\ Settled
    /\ UNCHANGED <<editorRef, chatVars, isConfigured, sideVars, status,
                   preApply, effects, acceptCalls, typed, applyLog, flightVars>>

NextStore ==
    \/ Send
    \/ Respond
    \/ Accept
    \/ Reject
    \/ setPendingSuggestion
    \/ clearPendingSuggestion
    \/ PanelAccept
    \/ PanelReject

SpecStore == Init /\ [][NextStore]_vars

\* ------------------------------------------------ InlineControls
\* The floating controls SOWEditor renders while store.inlineControls.visible
\* is set, which handleSelectionChange sets for a selected text that is not blank.

\* the selection is expanded: some text is selected
SelectionExpanded == selection # <<>> /\ selection[1] # selection[2]

\* getSelectedText(): the text under the selection, '' without one
getSelectedText(ed, ref) ==
    IF ref /\ ed.selection # <<>>
    THEN SubSeq(ed.doc, Min(ed.selection[1], ed.selection[2]) + 1,
                Max(ed.selection[1], ed.selection[2]))
    ELSE <<>>

\* selectedText.trim() is not empty
NotBlank(text) == \E i \in 1..Len(text) : text[i] \notin {"\n", " "}

\* SOWEditor.handleSelectionChange: showInlineControls / hideInlineControls
handleSelectionChange ==
    /\ inlineControls' = (SelectionExpanded /\ NotBlank(getSelectedText(Ed, editorRef)))
    /\ inlineControls' # inlineControls
    /\ Settled
    /\ UNCHANGED <<editorVars, editorRef, chatVars, isConfigured, sections, changeLog,
                   status, storeVars, ghostVars, flightVars>>

ReviseText(selectedText) == <<"R">> \o selectedText
AskText(selectedText) == <<"A">> \o selectedText

\* a button of InlineControls that brings the selected text to the chat: the
\* message is logged as the user's when some text is selected, nothing is sent,
\* the controls are hidden
InlineMessage(content) ==
    /\ inlineControls
    /\ Sends < MaxChatSends
    /\ IF getSelectedText(Ed, editorRef) # <<>>
       THEN /\ chatMessages' = addChatMessage(chatMessages,
                   [role |-> "user", content |-> content, hasSuggestion |-> FALSE,
                    suggestion |-> <<>>], now)
            /\ Mounted(FALSE)
       ELSE UNCHANGED <<chatMessages, status, ghostVars>>
    /\ inlineControls' = FALSE
    /\ Settled
    /\ UNCHANGED <<editorVars, editorRef, isClaudeTyping, inflight, now, isConfigured,
                   sections, changeLog, storeVars, flightVars>>

handleRevise == InlineMessage(ReviseText(getSelectedText(Ed, editorRef)))

handleAskClaude == InlineMessage(AskText(getSelectedText(Ed, editorRef)))

NextInline ==
    \/ UserSelect
    \/ handleSelectionChange
    \/ handleRevise
    \/ handleAskClaude
    \/ SendChat
    \/ Respond
    \/ Accept
    \/ Reject

SpecInline == Init /\ [][NextInline]_vars

\* ------------------------------------------------ suggestions one can tell apart
\* The chat on its own, the assistant's suggestions carrying one of two contents.

PairContents == {<<"X">>, <<"Y">>}

RespondPair == RespondFrom(RepliesOf(PairContents))

NextPair ==
    \/ UserSelect
    \/ SendChat
    \/ RespondPair
    \/ Accept
    \/ Reject

SpecPair == Init /\ [][NextPair]_vars

\* ------------------------------------------------ the store's sections
\* addSection, updateSection, deleteSection and undo of useSOWStore.  A section
\* is [id, content]; the time stamps are left out.  The section handed to
\* addSection has an id of its own (<<id>>) or none (<<>>, section.id is
\* undefined).  A changeLog entry is [type, sectionId, data].

MaxSections == 2     \* sections in the store
MaxChanges == 3      \* entries of changeLog
MaxClock == 3        \* Date.now() of the last addSection

OwnIds == {100}
SectionContents == {"a", "b"}
SectionArgs ==
    {[id |-> i, content |-> c] :
        i \in {<<>>} \cup {<<k>> : k \in OwnIds}, c \in SectionContents}

\* { id: Date.now().toString(), ...section }: the argument's id, when it has
\* one, replaces the generated id
addedSection(section, t) ==
    [id |-> IF section.id # <<>> THEN section.id[1] ELSE t,
     content |-> section.content]

\* the entry addSection pushes: sectionId is section.id, the argument's
addedChange(section, t) ==
    [type |-> "ADD_SECTION", sectionId |-> section.id, data |-> section]

\* sections.findIndex(s => s.id === sectionId): 0 stands for -1
findIndex(secs, sectionId) ==
    IF \E i \in 1..Len(secs) : secs[i].id = sectionId
    THEN CHOOSE i \in 1..Len(secs) :
             /\ secs[i].id = sectionId
             /\ \A j \in 1..(i - 1) : secs[j].id # sectionId
    ELSE 0

\* sections.filter(s => s.id !== sectionId), sectionId being <<>> for undefined
RECURSIVE filterOut(_, _)
filterOut(secs, sectionId) ==
    IF secs = <<>> THEN <<>>
    ELSE IF sectionId # <<>> /\ Head(secs).id = sectionId[1]
         THEN filterOut(Tail(secs), sectionId)
         ELSE <<Head(secs)>> \o filterOut(Tail(secs), sectionId)

\* undo(): the new sections
undoneSections(secs, log) ==
    IF log = <<>> THEN secs
    ELSE LET lastChange == Last(log)
         IN CASE lastChange.type = "ADD_SECTION" ->
                     filterOut(secs, lastChange.sectionId)
              [] lastChange.type = "UPDATE_SECTION" ->
                     IF findIndex(secs, lastChange.sectionId[1]) # 0
                     THEN [secs EXCEPT ![findIndex(secs, lastChange.sectionId[1])] =
                                           lastChange.data]
                     ELSE secs
              [] lastChange.type = "DELETE_SECTION" ->
                     Append(secs, lastChange.data)
              [] OTHER -> secs

\* undo(): the new changeLog
undoneChangeLog(log) == IF log = <<>> THEN log ELSE Front(log)

\* everything but the sections, the change log and the clock
appVars == <<editorVars, editorRef, chatMessages, isClaudeTyping, inflight, isConfigured,
             status, storeVars, ghostVars, moved, flightVars, inlineControls>>

addSection ==
    \E section \in SectionArgs :
        /\ Len(sections) < MaxSections
        /\ Len(changeLog) < MaxChanges
        /\ now < MaxClock
        /\ now' = now + 1
        /\ sections' = Append(sections, addedSection(section, now'))
        /\ changeLog' = Append(changeLog, addedChange(section, now'))
        /\ UNCHANGED appVars

updateSection ==
    \E sectionId \in {sections[i].id : i \in 1..Len(sections)}, c \in SectionContents :
        LET sectionIndex == findIndex(sections, sectionId)
        IN /\ Len(changeLog) < MaxChanges
           /\ sections[sectionIndex].content # c
           /\ sections' = [sections EXCEPT ![sectionIndex].content = c]
           /\ changeLog' = Append(changeLog,
                  [type |-> "UPDATE_SECTION", sectionId |-> <<sectionId>>,
                   data |-> sections[sectionIndex]])
           /\ UNCHANGED <<appVars, now>>

deleteSection ==
    \E sectionId \in {sections[i].id : i \in 1..Len(sections)} :
        LET sectionIndex == findIndex(sections, sectionId)
        IN /\ Len(changeLog) < MaxChanges
           /\ sections' = SubSeq(sections, 1, sectionIndex - 1)
                              \o SubSeq(sections, sectionIndex + 1, Len(sections))
           /\ changeLog' = Append(changeLog,
                  [type |-> "DELETE_SECTION", sectionId |-> <<sectionId>>,
                   data |-> sections[sectionIndex]])
           /\ UNCHANGED <<appVars, now>>

undo ==
    /\ changeLog # <<>>
    /\ sections' = undoneSections(sections, changeLog)
    /\ changeLog' = undoneChangeLog(changeLog)
    /\ UNCHANGED <<appVars, now>>

NextSections ==
    \/ addSection
    \/ updateSection
    \/ deleteSection
    \/ undo

SpecSections == Init /\ [][NextSections]_vars

\* ------------------------------------------------ placeholder mode
\* No AWS credentials: the user edits and sends texts of any kind, among them
\* the very JSON of a suggestion.

InitPlaceholder == Init /\ ~isConfigured

UserTexts ==
    {UserText,
     JSONStringify([type |-> "suggestion", action |-> "append", content |-> <<"X">>])}

SendAny == \E userMessage \in UserTexts : SendText(MaxChatSends, userMessage)

NextPlaceholder ==
    \/ UserType
    \/ UserSelect
    \/ UserUndo
    \/ UserRedo
    \/ SendAny
    \/ Respond

SpecPlaceholder == InitPlaceholder /\ [][NextPlaceholder]_vars

\* ------------------------------------------------ properties

Resolved == {"accepted", "rejected"}

\* the suggestion message m carries
SuggestionOf(m) == chatMessages[m].suggestion[1]

SuggestionMessages == {m \in Messages : chatMessages[m].hasSuggestion}

\* the ledger's entries for the suggestion of message m
EntriesFor(m) ==
    {i \in 1..Len(suggestionHistory) : suggestionHistory[i].id = SuggestionOf(m).id}

\* m's controls were showing and its Reject handler runs in this step
Rejecting(m) == status[m] = "pending" /\ status'[m] = "rejected"

\* the Reject handler of message m runs in this step
RejectRuns(m) == effects'[m] # effects[m]

Count(s, x) == Cardinality({i \in 1..Len(s) : s[i] = x})

IsPrefix(s, t) == Len(s) <= Len(t) /\ SubSeq(t, 1, Len(s)) = s

\* C1: a suggestion applied from the chat flow with action replace, insert or
\* append, then rejected with no user edit, no user undo or redo and no other
\* suggestion application in between: after Reject the document is what it was
\* just before the apply.
C1_RejectRestoresPreApply ==
    [][\A m \in SuggestionMessages :
          (/\ Rejecting(m)
           /\ SuggestionOf(m).type \in {"replace", "insert", "append"}
           /\ clean[m])
          => doc' = preApply[m]]_vars

\* C2: no Accept handler (the inline Accept of a chat message, SuggestionPanel's
\* Accept) changes the document or the editor's undo history.
C2_AcceptLeavesDocument ==
    [][(Accept \/ PanelAccept) => UNCHANGED <<doc, undos, redos>>]_vars

\* C3: a suggestion's state only moves pending -> accepted or pending ->
\* rejected, and no event moves an accepted or rejected suggestion anywhere.
C3_ResolvedIsTerminal ==
    [][\A m \in Messages :
          /\ status[m] \in Resolved => status'[m] = status[m]
          /\ status'[m] # status[m] => status[m] = "pending" /\ status'[m] \in Resolved]_vars

\* a suggestion was rejected with an undo, and the user edited afterwards (the
\* undo filled the redo stack, which only an edit empties)
C3_Witness ==
    \E m \in Messages :
        status[m] = "rejected" /\ Count(effects[m], "undo") = 1 /\ redos = <<>>

C5_SecondResolveIsNoOp ==
    [][\A m \in SuggestionMessages :
          (status[m] \in Resolved
             /\ (effects'[m] # effects[m] \/ acceptCalls'[m] # acceptCalls[m]))
          => /\ status'[m] = status[m]
             /\ Count(effects'[m], "undo") = Count(effects[m], "undo")
             /\ UNCHANGED <<doc, undos, redos>>]_vars

\* C6: after Accept ran twice for one applied suggestion the ledger holds
\* exactly one entry for it, with status accepted.
C6_DoubleAcceptOneEntry ==
    \A m \in SuggestionMessages :
        acceptCalls[m] >= 2 =>
            /\ Cardinality(EntriesFor(m)) = 1
            /\ \A i \in EntriesFor(m) : suggestionHistory[i].status = "accepted"

\* C7: a suggestion applied from the chat flow and then rejected has exactly
\* one ledger entry, with status rejected.
C7_RejectedHasOneEntry ==
    \A m \in SuggestionMessages :
        status[m] = "rejected" =>
            /\ Cardinality(EntriesFor(m)) = 1
            /\ \A i \in EntriesFor(m) : suggestionHistory[i].status = "rejected"

\* C8: from its application on, and until it is accepted or rejected, the store
\* holds a record of the suggestion in state applied.
C8_AppliedIsRecorded ==
    \A m \in SuggestionMessages :
        status[m] = "pending" =>
            \/ /\ pendingSuggestion # <<>>
               /\ pendingSuggestion[1].id = SuggestionOf(m).id
               /\ pendingSuggestion[1].applied
            \/ EntriesFor(m) # {}

\* C9: suggestionHistory never holds two entries with the same suggestion id.
C9_OneEntryPerId ==
    \A i, j \in 1..Len(suggestionHistory) :
        i # j => suggestionHistory[i].id # suggestionHistory[j].id

\* C10: every step leaves the previous suggestionHistory a prefix of the new
\* one, and every entry has status accepted or rejected.
C10_LedgerAppendOnly ==
    [][/\ IsPrefix(suggestionHistory, suggestionHistory')
       /\ \A i \in 1..Len(suggestionHistory') :
              suggestionHistory'[i].status \in Resolved]_vars

\* the ledger holds an accepted and then a rejected entry
C10_Witness ==
    /\ Len(suggestionHistory) = 2
    /\ suggestionHistory[1].status = "accepted"
    /\ suggestionHistory[2].status = "rejected"

\* ---- the reply that arrives in this step

\* handleSendMessage resumes after its await in this step
Arrived == inflight' < inflight

\* ... and the reply parses to an object of type "suggestion"
ArrivedSuggestion ==
    /\ Arrived
    /\ ~response'[1].throws
    /\ response'[1].payload # <<>>
    /\ response'[1].payload[1].type = "suggestion"

\* ... and the reply is a text that is not JSON, or JSON of another type
ArrivedConversational ==
    /\ Arrived
    /\ ~response'[1].throws
    /\ (response'[1].payload = <<>> \/ response'[1].payload[1].type # "suggestion")

\* the ledger's rejected entries for the suggestion of message m, after the step
RejectedEntriesAfter(m) ==
    {i \in 1..Len(suggestionHistory') :
        /\ suggestionHistory'[i].id = SuggestionOf(m).id
        /\ suggestionHistory'[i].status = "rejected"}

\* C11: a Reject that finds the undo history empty attempts no undo, leaves the
\* document and the history as they are, marks the suggestion rejected and
\* records it as rejected in the ledger.
C11_RejectOnEmptyHistory ==
    [][\A m \in SuggestionMessages :
          (Rejecting(m) /\ undos = <<>>) =>
              /\ Count(effects'[m], "undo") = 0
              /\ UNCHANGED <<doc, undos, redos>>
              /\ status'[m] = "rejected"
              /\ RejectedEntriesAfter(m) # {}]_vars

\* C12: when a suggestion arrives while the editor is not registered, the
\* document is unchanged, an assistant message reports it, and neither a ledger
\* record nor a message carrying a suggestion with controls is created.
C12_UnavailableIsReported ==
    [][(ArrivedSuggestion /\ ~editorRef) =>
          /\ UNCHANGED <<doc, undos, redos>>
          /\ UNCHANGED <<pendingSuggestion, suggestionHistory>>
          /\ Len(chatMessages') = Len(chatMessages) + 1
          /\ Last(chatMessages').role = "assistant"
          /\ ~Last(chatMessages').hasSuggestion
          /\ Last(status') = "none"]_vars

\* C13: every apply of a suggestion, whatever its action and whatever the
\* selection at arrival, adds exactly one batch to the undo history and leaves
\* the earlier batches as they were.
C13_OneBatchPerApply ==
    [][ArrivedSuggestion =>
          /\ Len(undos') = Len(undos) + 1
          /\ Front(undos') = undos]_vars

\* C14 as stated: after apply(S), one key press E of the user and reject(S),
\* the undo of the reject has reverted E alone: the document is what it was
\* just after the apply, and S is shown as rejected.
C14_RejectRevertsOnlyTheEdit ==
    [][\A m \in SuggestionMessages :
          (Rejecting(m) /\ since[m] = "typed") =>
              /\ status'[m] = "rejected"
              /\ doc' = applyLog[m].doc]_vars

\* C14 amended: after apply(S), one key press E of the user and reject(S), the
\* reject has issued one undo, which took the latest batch off the history, and
\* S is shown as rejected; when E had opened a batch of its own the document
\* is what it was just after the apply (E reverted, S's content still there);
\* when E had been merged into the batch of S's apply, that batch is undone
\* (E and S reverted together).
C14_RejectRevertsLatestBatch ==
    [][\A m \in SuggestionMessages :
          (Rejecting(m) /\ since[m] = "typed") =>
              /\ status'[m] = "rejected"
              /\ effects'[m] = <<"undo", "status">>
              /\ undos' = Front(undos)
              /\ Len(undos) > applyLog[m].batches => doc' = applyLog[m].doc
              /\ Len(undos) <= applyLog[m].batches =>
                    Len(undos') < applyLog[m].batches]_vars

\* S was applied, the user typed one character, S was rejected: the document is
\* back to what the apply had made of it, S's content included
C14_Witness ==
    \E m \in SuggestionMessages :
        /\ status[m] = "rejected"
        /\ since[m] = "typed"
        /\ doc = applyLog[m].doc
        /\ doc # preApply[m]

\* C15: never more than one request is out; while one is out no step dispatches
\* another, and a send attempt appends no message and dispatches nothing.
C15_OneRequestInFlight ==
    [][/\ inflight <= 1
       /\ inflight' <= 1
       /\ inflight > 0 => inflight' <= inflight
       /\ (inflight > 0 /\ blocked' /\ ~blocked) =>
              UNCHANGED <<chatMessages, inflight, isClaudeTyping>>]_vars

\* a send was attempted while the request is out
C15_Witness == inflight = 1 /\ blocked /\ Sends = 1

\* the document after a suggestion of the given action and content is applied
\* with the selection sel
AppliedAt(d, sel, action, content) ==
    IF action = "append" THEN d \o <<"\n">> \o content
    ELSE IF sel = <<>> THEN d
    ELSE LET lo == Min(sel[1], sel[2])
             hi == Max(sel[1], sel[2])
         IN InsertAt(RemoveAt(d, lo, hi - lo), lo, content)

\* C16: a suggestion is applied at the selection the editor has when the reply
\* arrives.
C16_AppliedAtArrivalSelection ==
    [][ArrivedSuggestion =>
          doc' = AppliedAt(doc, selection, response'[1].payload[1].action,
                           response'[1].payload[1].content)]_vars

\* the user set the selection while the request was out, and the replace that
\* then arrived changed the document
C16_Witness ==
    /\ moved
    /\ inflight = 0
    /\ chatMessages # <<>>
    /\ Last(chatMessages).hasSuggestion
    /\ Last(chatMessages).suggestion[1].type = "replace"
    /\ doc # Last(preApply)

\* C17: the composing flag is true exactly while a request is out.
C17_TypingWhileInFlight == isClaudeTyping = (inflight > 0)

\* a failed request and a request answered by a suggestion are both over
C17_Witness ==
    /\ ~isClaudeTyping
    /\ \E m \in Messages : chatMessages[m].content = ErrorText
    /\ SuggestionMessages # {}

\* C18: a request that fails appends exactly one assistant message, the error
\* text, clears the composing flag and leaves the guard of the next send open.
C18_FailureIsRecoverable ==
    [][(Arrived /\ response'[1].throws) =>
          /\ Len(chatMessages') = Len(chatMessages) + 1
          /\ SubSeq(chatMessages', 1, Len(chatMessages)) = chatMessages
          /\ Last(chatMessages').role = "assistant"
          /\ Last(chatMessages').content = ErrorText
          /\ ~Last(chatMessages').hasSuggestion
          /\ ~isClaudeTyping'
          /\ inflight' = 0]_vars

\* after a failed request, the next one was sent and answered by a suggestion
C18_Witness ==
    \E i, j \in Messages :
        /\ i < j
        /\ chatMessages[i].role = "assistant"
        /\ chatMessages[i].content = ErrorText
        /\ chatMessages[j].hasSuggestion
        /\ inflight = 0

\* C19: a reply that is not JSON, or whose type is not "suggestion", appends
\* exactly one assistant message whose content is the raw reply, leaves the
\* document, the undo history and the store's suggestions as they are, and
\* mounts no controls.
C19_ParseFailureIsConversational ==
    [][ArrivedConversational =>
          /\ chatMessages' = Append(chatMessages,
                 [id |-> now', role |-> "assistant", content |-> response'[1].text,
                  hasSuggestion |-> FALSE, suggestion |-> <<>>])
          /\ UNCHANGED <<doc, selection, undos, redos>>
          /\ UNCHANGED <<pendingSuggestion, suggestionHistory>>
          /\ Last(status') = "none"]_vars

\* a JSON reply of another type was shown as text while the history held a batch
C19_Witness ==
    /\ response = <<OtherJsonReply>>
    /\ Last(chatMessages).content = OtherJsonReply.text
    /\ undos # <<>>

\* C20: a payload of type "suggestion" without an action is not applied and
\* creates no suggestion.
C20_ProposalNeedsAction ==
    [][(ArrivedSuggestion /\ response'[1].payload[1].action = NoAction) =>
          /\ UNCHANGED <<doc, undos, redos>>
          /\ ~Last(chatMessages').hasSuggestion]_vars

\* ---- what each action does to the document and the selection

\* the action and the content of the suggestion that arrives in this step
ArrivedAction == response'[1].payload[1].action
ArrivedContent == response'[1].payload[1].content

\* C21: a replace that arrives while a text S is selected puts its content once
\* in the place of S: the text before S, the content, the text after S.
C21_ReplaceReplacesSelection ==
    [][(ArrivedSuggestion /\ ArrivedAction = "replace" /\ SelectionExpanded) =>
          LET lo == Min(selection[1], selection[2])
              hi == Max(selection[1], selection[2])
          IN /\ doc' = SubSeq(doc, 1, lo) \o ArrivedContent \o SubSeq(doc, hi + 1, Len(doc))
             /\ Len(doc') = Len(doc) - (hi - lo) + Len(ArrivedContent)]_vars

\* a replace arrived while the first character was selected, and took its place
C21_Witness ==
    /\ chatMessages # <<>>
    /\ Last(chatMessages).hasSuggestion
    /\ Last(chatMessages).suggestion[1].type = "replace"
    /\ Last(status) = "pending"
    /\ Last(preApply) = InitialText
    /\ doc = Last(chatMessages).suggestion[1].content
    /\ undos # <<>>

\* C22: an append that arrives while the editor has a selection puts a newline
\* and the content at the end of the document, and leaves the selection what
\* it was before the append.
C22_AppendRestoresSelection ==
    [][(ArrivedSuggestion /\ ArrivedAction = "append" /\ selection # <<>>) =>
          /\ doc' = doc \o <<"\n">> \o ArrivedContent
          /\ selection' = selection]_vars

\* the user selected the first character while the request was out; the append
\* has just arrived, and the first character is still what is selected
C22_Witness ==
    /\ moved
    /\ inflight = 0
    /\ chatMessages # <<>>
    /\ Last(chatMessages).hasSuggestion
    /\ Last(chatMessages).suggestion[1].type = "append"
    /\ doc = Last(preApply) \o <<"\n">> \o Last(chatMessages).suggestion[1].content
    /\ selection = <<0, 1>>

\* C23: an append that arrives while the editor has no selection leaves the
\* editor without a selection.
C23_AppendKeepsNoSelection ==
    [][(ArrivedSuggestion /\ ArrivedAction = "append" /\ selection = <<>>) =>
          selection' = <<>>]_vars

\* C24: every step leaves the chat log as it was or adds messages at its end,
\* the earlier messages keeping their place and their fields; a step that
\* resolves a suggestion leaves the log as it was.
C24_ChatLogAppendOnly ==
    [][/\ IsPrefix(chatMessages, chatMessages')
       /\ (\E m \in Messages : status'[m] # status[m]) =>
              chatMessages' = chatMessages]_vars

\* the log holds the user's request, the suggestion that answered it and was
\* rejected, and a message of the inline controls
C24_Witness ==
    /\ Len(chatMessages) = 3
    /\ chatMessages[2].hasSuggestion
    /\ status[2] = "rejected"
    /\ chatMessages[3].role = "user"
    /\ chatMessages[3].content # UserText

\* the text occurs in the document
Contains(d, text) ==
    \E i \in 0..(Len(d) - Len(text)) : SubSeq(d, i + 1, i + Len(text)) = text

\* C25: with two suggestions A and B applied one after the other, and no edit
\* of the user, rejecting A while B is not rejected takes A's content out of
\* the document and keeps B's.
C25_RejectRemovesItsOwnContent ==
    [][\A a, b \in SuggestionMessages :
          (/\ a < b
           /\ Rejecting(a)
           /\ status[b] # "rejected"
           /\ SuggestionOf(a).content # SuggestionOf(b).content
           /\ Contains(doc, SuggestionOf(a).content)
           /\ Contains(doc, SuggestionOf(b).content))
          => /\ Contains(doc', SuggestionOf(b).content)
             /\ ~Contains(doc', SuggestionOf(a).content)]_vars

\* m's controls were showing and its Accept handler runs in this step
Accepting(m) == status[m] = "pending" /\ status'[m] = "accepted"

\* C26: when a click on Accept or Reject of a message's controls adds an entry
\* to suggestionHistory, the entry has the id of the suggestion that message
\* carries.
C26_EntryIsOfClickedMessage ==
    [][\A m \in SuggestionMessages :
          (/\ Accepting(m) \/ Rejecting(m)
           /\ Len(suggestionHistory') > Len(suggestionHistory))
          => Last(suggestionHistory').id = SuggestionOf(m).id]_vars

\* C27: once a suggestion is rejected and its edit undone, so that its content
\* is out of the document, no undo or redo of the user (Ctrl+Z, Ctrl+Shift+Z,
\* Ctrl+Y, the toolbar buttons) brings the content back.
C27_RejectedStaysOut ==
    [][(UserUndo \/ UserRedo) =>
          \A m \in SuggestionMessages :
              (/\ status[m] = "rejected"
               /\ Count(effects[m], "undo") = 1
               /\ ~Contains(doc, SuggestionOf(m).content))
              => ~Contains(doc', SuggestionOf(m).content)]_vars

\* the messages of a role in the chat log
MessagesOf(role) == {m \in Messages : chatMessages[m].role = role}

\* C28: every message of the user stands for exactly one request: the user's
\* messages are as many as the requests still out plus the assistant's
\* messages, of which each settled request has appended exactly one.
C28_UserMessageHasRequest ==
    Cardinality(MessagesOf("user")) = inflight + Cardinality(MessagesOf("assistant"))

\* C29: from every state of the store and for every section (with an id of its
\* own or without), addSection(section) and then undo() leave sections what it
\* was before the add, and changeLog without the ADD_SECTION entry.
C29_UndoReversesAddSection ==
    \A section \in SectionArgs :
        LET t == now + 1
            added == Append(sections, addedSection(section, t))
            logged == Append(changeLog, addedChange(section, t))
        IN /\ undoneSections(added, logged) = sections
           /\ undoneChangeLog(logged) = changeLog

\* C30: without credentials every reply, whatever the user sent, appends one
\* assistant message that is plain text (the reply as it is), creates no
\* suggestion and mounts no controls, and leaves the document, the selection,
\* the undo history and the store's suggestions as they were.
C30_PlaceholderNeverEdits ==
    [][(Arrived /\ ~isConfigured) =>
          /\ chatMessages' = Append(chatMessages,
                 [id |-> now', role |-> "assistant", content |-> response'[1].text,
                  hasSuggestion |-> FALSE, suggestion |-> <<>>])
          /\ response'[1].payload = <<>>
          /\ Last(status') = "none"
          /\ UNCHANGED <<doc, selection, undos, redos>>
          /\ UNCHANGED <<pendingSuggestion, suggestionHistory>>]_vars

\* the user had typed, then sent the JSON of a suggestion; the placeholder
\* answered with text and the document is as the user left it
C30_Witness ==
    /\ ~isConfigured
    /\ inflight = 0
    /\ Len(chatMessages) = 2
    /\ JSONParse(chatMessages[1].content) # <<>>
    /\ chatMessages[2].role = "assistant"
    /\ ~chatMessages[2].hasSuggestion
    /\ Len(undos) = 1
    /\ doc = InitialText \o <<"u">>

====
